---------------------------- MODULE Spec2Model ----------------------------
(***************************************************************************)
(* Model of singularity-mpi's definition-file generator (package deffile)  *)
(* and of the template post-processor.  Strings are TLC strings, so the    *)
(* text the builders emit is the text of the Go source, split into lines.  *)
(***************************************************************************)
EXTENDS Integers, Sequences, FiniteSets, TLC

VARIABLES
    app,        \* *app.Info: Name, BinName, BinPath, Source, InstallCmd
    app0,       \* the app.Info as the caller passed it
    data,       \* *DefFileData: Path, DistroID, MpiImplm, InternalEnv, Model
    sysCfg,     \* *sys.Config: Nopriv, Debug
    host,       \* what the host answers: registry, ldd module, ldd run
    pc,         \* position in the running function
    manifest,   \* lines of the definition file on disk
    calls,      \* builders invoked so far, in order
    done,       \* builders that returned nil, in order
    created,    \* os.Create has been called on data.Path
    fileOpen,   \* the *os.File is open
    closes,     \* number of f.Close() calls
    pkgs,       \* dependency list handed to addDependencies
    ret,        \* "" while running, "nil" or the error returned
    tmpl,       \* content of the template file at data.Path
    tmplOrig,   \* content of the template file before the call
    tmplRead,   \* ioutil.ReadFile has been called by the last call
    tmplRuns,   \* UpdateDeffileTemplate calls made
    metaOut,    \* lines the inspect command printed
    metadata,   \* container.Config returned by GetMetadata
    mpiCfg,     \* implem.Info returned by GetMetadata
    container,  \* *container.Config: Name, Path, BuildDir, InstallDir, DefFile, URL
    install,    \* the host's Singularity installation and the image file
    cmdRuns,    \* external commands run so far, each <<binary, arguments>>
    imageMode,  \* "" while no chmod was made, else the mode given to the image
    environ,    \* os.Getenv: KeyIndex (SY_KEY_INDEX), Passphrase (SY_KEY_PASSPHRASE)
    writers,    \* goroutines Sign has started
    writer,     \* position of the goroutine: none, spawned, wrote, closed, fatal
    stdin,      \* the pipe to the signer: open (write end), data written into it
    proc        \* the signer process: none, running, exited

vars == <<app, app0, data, sysCfg, host, pc, manifest, calls, done, created,
          fileOpen, closes, pkgs, ret, tmpl, tmplOrig, tmplRead, tmplRuns,
          metaOut, metadata, mpiCfg, container, install, cmdRuns, imageMode,
          environ, writers, writer, stdin, proc>>

metaVars == <<metaOut, metadata, mpiCfg>>

drvVars == <<container, install, cmdRuns, imageMode>>

signVars == <<environ, writers, writer, stdin, proc>>

\* the zero value of container.Config
NilConfig ==
    [Name |-> "", Path |-> "", BuildDir |-> "", InstallDir |-> "", DefFile |-> "",
     Distro |-> "", URL |-> "", Model |-> "", AppExe |-> "", MPIDir |-> ""]

(***************************************************************************)
(* Bounds of the model.                                                    *)
(***************************************************************************)
MaxDeps == 2
MaxRuns == 2

(***************************************************************************)
(* Go string functions (strings, path).                                    *)
(***************************************************************************)
HasPrefix(s, p) == Len(s) >= Len(p) /\ SubSeq(s, 1, Len(p)) = p

HasSuffix(s, p) == Len(s) >= Len(p) /\ SubSeq(s, Len(s) - Len(p) + 1, Len(s)) = p

\* strings.Index(s, sub) + 1; 0 when sub does not occur in s
Index(s, sub) ==
    LET starts == {i \in 1..(Len(s) - Len(sub) + 1) : SubSeq(s, i, i + Len(sub) - 1) = sub}
    IN  IF starts = {} THEN 0 ELSE CHOOSE i \in starts : \A j \in starts : i <= j

Contains(s, sub) == Index(s, sub) > 0

\* strings.Replace(s, old, new, n) for a non-empty old; n < 0 replaces all
RECURSIVE Replace(_, _, _, _)
Replace(s, old, new, n) ==
    LET i == Index(s, old)
    IN  IF n = 0 \/ i = 0 \/ old = "" THEN s
        ELSE SubSeq(s, 1, i - 1) \o new
             \o Replace(SubSeq(s, i + Len(old), Len(s)), old, new, n - 1)

\* index of the last "/" of s, 0 when there is none
LastSlash(s) ==
    LET at == {i \in 1..Len(s) : SubSeq(s, i, i) = "/"}
    IN  IF at = {} THEN 0 ELSE CHOOSE i \in at : \A j \in at : j <= i

\* path.Base
RECURSIVE Base(_)
Base(s) ==
    IF s = "" THEN "."
    ELSE IF s = "/" THEN "/"
    ELSE IF HasSuffix(s, "/") THEN Base(SubSeq(s, 1, Len(s) - 1))
    ELSE SubSeq(s, LastSlash(s) + 1, Len(s))

\* strings.Join(list, " ")
RECURSIVE Join(_)
Join(list) ==
    IF list = <<>> THEN ""
    ELSE IF Len(list) = 1 THEN list[1]
    ELSE list[1] \o " " \o Join(Tail(list))

\* concatenation of a sequence of sequences
RECURSIVE Flatten(_)
Flatten(ss) == IF ss = <<>> THEN <<>> ELSE Head(ss) \o Flatten(Tail(ss))

(***************************************************************************)
(* Constants of the program.                                               *)
(***************************************************************************)
HybridModel == "hybrid"
BindModel == "bind"
distroCodenameTag == "DISTROCODENAME"

FileURL == "file"
HttpURL == "http"
GitURL == "git"
FormatBZ2 == "bz2"
FormatGZ == "gz"
FormatTAR == "tar"
UnknownFormat == ""


(***************************************************************************)
(* Helpers of github.com/gvallee/go_util and of internal/pkg/distro, whose *)
(* code is outside the sources at hand: modelled from their documented     *)
(* behaviour.                                                              *)
(***************************************************************************)
\* util.DetectURLType: the kind of source a URL names
DetectURLType(url) ==
    IF HasPrefix(url, "file://") \/ ~Contains(url, "://") THEN FileURL
    ELSE IF HasPrefix(url, "http") THEN (IF HasSuffix(url, ".git") THEN GitURL ELSE HttpURL)
    ELSE ""

\* util.DetectTarballFormat: the archive format named by a file's suffix
DetectTarballFormat(file) ==
    IF HasSuffix(file, ".tar.bz2") THEN FormatBZ2
    ELSE IF HasSuffix(file, ".tar.gz") \/ HasSuffix(file, ".tgz") THEN FormatGZ
    ELSE IF HasSuffix(file, ".tar") THEN FormatTAR
    ELSE UnknownFormat

\* util.GetTarArgs: the tar flags for a format; it returns a string only
GetTarArgs(format) ==
    IF format = FormatBZ2 THEN "-xjf"
    ELSE IF format = FormatGZ THEN "-xzf"
    ELSE IF format = FormatTAR THEN "-xf"
    ELSE ""

\* distro.GetBaseImageLibraryURL: the registry URL of the distro's base image, or ""
GetBaseImageLibraryURL(h, id) ==
    IF id.Name \in h.baseImages
    THEN "library://sylabs/" \o id.Name \o ":" \o id.Version
    ELSE ""

(***************************************************************************)
(* Section builders.  A builder is [writes, err, mut]: the WriteString     *)
(* calls it makes in order (each a sequence of lines), the error it        *)
(* returns once they all succeeded ("" for nil), and the number of         *)
(* successful writes after which it assigns app.BinPath (addLabels).       *)
(***************************************************************************)
Builder(w, e) == [writes |-> w, err |-> e, mut |-> 0]

\* mutation: the bind model is not told apart
App_exe_Bug(a, d) == IF a.BinPath = "" THEN "/opt/" \o a.BinName ELSE a.BinPath

\* the value addLabels writes after "App_exe "
App_exe(a, d) ==
    IF d.Model = BindModel THEN "/opt/" \o a.BinName
    ELSE IF a.BinPath = "" THEN "/opt/" \o a.BinName
    ELSE a.BinPath

addLabels(a, d) ==
    LET w == <<
              <<"%labels">>,
              <<"\tLinux_distribution " \o d.DistroID.Name>>,
              <<"\tLinux_version " \o d.DistroID.Version>> >>
            \o (IF ~d.MpiImplm.isNil
                THEN << <<"\tMPI_Implementation " \o d.MpiImplm.ID>>,
                        <<"\tMPI_Version " \o d.MpiImplm.Version>> >>
                ELSE <<>>)
            \o (IF ~d.InternalEnv.isNil /\ d.InternalEnv.InstallDir # ""
                THEN << <<"\tMPI_Directory " \o d.InternalEnv.InstallDir>> >>
                ELSE <<>>)
            \o (IF d.Model # "" THEN << <<"\tModel " \o d.Model>> >> ELSE <<>>)
            \o << <<"\tApplication " \o a.Name>> >>
    IN  [writes |-> w \o << <<"\tApp_exe " \o App_exe(a, d)>>, <<"">> >>,
         err |-> "",
         mut |-> IF d.Model = BindModel THEN 0 ELSE Len(w)]

\* app.BinPath after addLabels has reached its App_exe write
addLabelsBinPath(a, d) ==
    IF d.Model # BindModel /\ a.BinPath = "" THEN "/opt/" \o a.BinName ELSE a.BinPath

addDockerBootstrap(d) ==
    Builder(<< <<"Bootstrap: docker", "From: " \o d.DistroID.Name, "">> >>, "")

addYumBootstrap(d) ==
    Builder(<< <<"Bootstrap: yum", "OSVersion: " \o d.DistroID.Version,
                 "MirrorURL: http://mirror.centos.org/centos-%{OSVERSION}/%{OSVERSION}/os/$basearch/",
                 "Include: yum", "">> >>, "")

addDebootstrapBootstrap(d) ==
    Builder(<< <<"Bootstrap: debootstrap", "OSVersion: " \o d.DistroID.Codename,
                 "MirrorURL: http://us.archive.ubuntu.com/ubuntu/", "">> >>, "")

\* mutation: the privileged and unprivileged centos branches swapped
AddBootstrap_PrivSwapped(d, cfg, h) ==
    LET libraryURL == GetBaseImageLibraryURL(h, d.DistroID)
    IN  IF libraryURL # ""
        THEN Builder(<< <<"Bootstrap: library", "From: " \o libraryURL, "">> >>, "")
        ELSE IF d.DistroID.Name = "ubuntu" THEN addDebootstrapBootstrap(d)
        ELSE IF d.DistroID.Name = "centos"
             THEN (IF cfg.Nopriv THEN addYumBootstrap(d) ELSE addDockerBootstrap(d))
        ELSE Builder(<<>>, "unsupported distro: " \o d.DistroID.Name)

\* mutation: an unknown distro name falls back to the docker bootstrap
AddBootstrap_Fallback(d, cfg, h) ==
    LET libraryURL == GetBaseImageLibraryURL(h, d.DistroID)
    IN  IF libraryURL # ""
        THEN Builder(<< <<"Bootstrap: library", "From: " \o libraryURL, "">> >>, "")
        ELSE IF d.DistroID.Name = "ubuntu" THEN addDebootstrapBootstrap(d)
        ELSE IF d.DistroID.Name = "centos"
             THEN (IF ~cfg.Nopriv THEN addYumBootstrap(d) ELSE addDockerBootstrap(d))
        ELSE addDockerBootstrap(d)

AddBootstrap(d, cfg, h) ==
    LET libraryURL == GetBaseImageLibraryURL(h, d.DistroID)
    IN  IF libraryURL # ""
        THEN Builder(<< <<"Bootstrap: library", "From: " \o libraryURL, "">> >>, "")
        ELSE IF d.DistroID.Name = "ubuntu" THEN addDebootstrapBootstrap(d)
        ELSE IF d.DistroID.Name = "centos"
             THEN (IF ~cfg.Nopriv THEN addYumBootstrap(d) ELSE addDockerBootstrap(d))
        ELSE Builder(<<>>, "unsupported distro: " \o d.DistroID.Name)

addDistroInit(d, cfg) ==
    Builder(
        << <<"%post">> >>
        \o (IF d.DistroID.Name = "ubuntu"
            THEN << <<"\tapt-get update && apt-get install -y dash wget git bash gcc gfortran g++ make file software-properties-common", "">>,
                    <<"\tadd-apt-repository universe">>,
                    <<"\tadd-apt-repository multiverse">>,
                    <<"\tapt-get update", "">> >>
            ELSE IF d.DistroID.Name = "centos"
            THEN (IF ~cfg.Nopriv THEN << <<"\trpm --rebuilddb">> >> ELSE <<>>)
                 \o << <<"\tyum -y update">>,
                       <<"\tyum -y install bash wget tar bzip2 git make gcc gcc-c++ gcc-gfortran">>,
                       <<"\tyum clean all", "">> >>
            ELSE <<>>),
        "")

AddMPIInstall(d) ==
    LET mpitarball == Base(d.MpiImplm.URL)
        tarballFormat == DetectTarballFormat(mpitarball)
        tarArgs == GetTarArgs(tarballFormat)
    IN  Builder(
        << <<"\texport MPI_VERSION=" \o d.MpiImplm.Version,
             "\texport MPI_URL=\"" \o d.MpiImplm.URL \o "\"">>,
           <<"\texport MPI_DIR=" \o d.InternalEnv.InstallDir>>,
           <<"\texport MPI_BUILDDIR=/opt/build-mpi", "\tmkdir -p $MPI_BUILDDIR", "">>,
           <<"\tcd $MPI_BUILDDIR && wget $MPI_URL && tar " \o tarArgs \o " " \o mpitarball>>,
           <<"\tcd $MPI_BUILDDIR/" \o d.MpiImplm.ID \o "-$MPI_VERSION && ./configure --prefix=$MPI_DIR && make -j8 install">>,
           <<"\texport PATH=$MPI_DIR/bin:$PATH",
             "\texport LD_LIBRARY_PATH=$MPI_DIR/lib:$LD_LIBRARY_PATH",
             "\texport MANPATH=$MPI_DIR/share/man:$MANPATH", "">> >>,
        "")

addMPIEnv(d) ==
    Builder(
        << <<"%environment", "\tMPI_DIR=" \o d.InternalEnv.InstallDir>>,
           <<"\texport MPI_DIR", "\texport PATH=$MPI_DIR/bin:$PATH",
             "\texport LD_LIBRARY_PATH=$MPI_DIR/lib:$LD_LIBRARY_PATH", "">> >>,
        "")

\* mutation: the hybrid model stages the source whatever its suffix is
createFilesSection_StageAll(a, d) ==
    Builder(
        << <<"%files">> >>
        \o (IF d.Model = BindModel
            THEN << <<"\t" \o a.BinPath \o " /opt", "">> >>
            ELSE << <<"\t" \o Replace(a.Source, "file://", "", 1) \o " /opt", "">> >>),
        "")

createFilesSection(a, d) ==
    Builder(
        << <<"%files">> >>
        \o (IF d.Model = BindModel
            THEN << <<"\t" \o a.BinPath \o " /opt", "">> >>
            ELSE IF d.Model = HybridModel
            THEN (IF DetectTarballFormat(a.Source) = UnknownFormat
                  THEN << <<"\t" \o Replace(a.Source, "file://", "", 1) \o " /opt", "">> >>
                  ELSE <<>>)
            ELSE << <<"\t" \o Replace(a.Source, "file://", "", 1) \o " /opt", "">> >>),
        "")

\* the source wraps the command in backquotes, which a TLA+ string cannot hold:
\* they are written $( ) here
addDetectAppDir ==
    << <<"\tAPPDIR=$(ls -l /opt | egrep '^d' | head -1 | awk '{print $9}')", "">> >>

addAppDownload(a, d) ==
    LET urlType == DetectURLType(a.Source)
    IN  Builder(
        IF urlType = GitURL
        THEN << <<"\tcd /opt && git clone " \o a.Source>> >> \o addDetectAppDir
        ELSE IF urlType = HttpURL
        THEN << <<"\tcd /opt && wget " \o a.Source \o " && tar "
                  \o GetTarArgs(DetectTarballFormat(a.Source)) \o " " \o Base(a.Source)>> >>
             \o addDetectAppDir
        ELSE <<>>,
        "")

addAppInstall(a, d) ==
    LET installCmd == IF a.InstallCmd # "" THEN a.InstallCmd ELSE "make install"
        urlType == DetectURLType(a.Source)
        \* filepath.Join(SrcDir, filepath.Base(app.Source)) for a clean SrcDir
        containerSrcPath == d.InternalEnv.SrcDir \o "/" \o Base(a.Source)
        link == << <<"\tcd /opt && ln -s $APPDIR/" \o a.BinName \o " " \o a.BinName
                     \o " 2> /dev/null || true", "">> >>
    IN  IF urlType = GitURL
        THEN Builder(<< <<"\tcd /opt/$APPDIR && " \o installCmd>> >> \o link, "")
        ELSE IF urlType = FileURL
        THEN (IF a.BinPath # ""
              THEN Builder(<< <<"\tcd /opt/$APPDIR && mpicc -o " \o a.BinPath \o " "
                                \o containerSrcPath>> >> \o link, "")
              ELSE IF a.InstallCmd # ""
              THEN Builder(<< <<"\tcd /opt/$APPDIR && " \o a.InstallCmd>> >> \o link, "")
              ELSE Builder(<<>>, "unable to figure out how to compile source file"))
        ELSE IF urlType = HttpURL
        THEN Builder(<< <<"\tcd /opt/$APPDIR && " \o installCmd>> >> \o link, "")
        ELSE Builder(link, "")

addMPICleanup(a, d) ==
    Builder(IF d.Model = HybridModel
            THEN << <<"", "\trm -rf $MPI_BUILDDIR", "">> >>
            ELSE <<>>, "")

\* mutation: the first package of the list is left out of the install line
addDebianDependencies_DropFirst(list) ==
    Builder(
        (IF Len(list) > 0 THEN << <<"\tapt install -y " \o Join(Tail(list))>> >> ELSE <<>>)
        \o << <<"\tln -s /usr/lib/x86_64-linux-gnu/libosmcomp.so /usr/lib/x86_64-linux-gnu/libosmcomp.so.3">>,
              <<"\tldconfig">> >>,
        "")

addDebianDependencies(list) ==
    Builder(
        (IF Len(list) > 0 THEN << <<"\tapt install -y " \o Join(list)>> >> ELSE <<>>)
        \o << <<"\tln -s /usr/lib/x86_64-linux-gnu/libosmcomp.so /usr/lib/x86_64-linux-gnu/libosmcomp.so.3">>,
              <<"\tldconfig">> >>,
        "")

addRPMDependencies(list) ==
    Builder(IF Len(list) > 0 THEN << <<"\tyum install -y " \o Join(list)>> >> ELSE <<>>, "")

addDependencies(d, list) ==
    IF d.DistroID.Name = "centos" THEN addRPMDependencies(list)
    ELSE IF d.DistroID.Name = "ubuntu" THEN addDebianDependencies(list)
    ELSE Builder(<<>>, "")

addCleanUp(d) ==
    Builder(IF d.DistroID.Name = "centos" THEN << <<"\tapt-get clean">> >>
            ELSE IF d.DistroID.Name = "ubuntu" THEN << <<"\tyum clean all">> >>
            ELSE <<>>, "")

\* mutation: the mount directory is created in a %post block of its own
mkdirInstallDir_OwnPost(d) ==
    Builder(<< <<"%post">>, <<"\tmkdir -p " \o d.InternalEnv.InstallDir, "">> >>, "")

\* the mount-directory write of CreateBindDefFile
mkdirInstallDir(d) ==
    Builder(<< <<"\tmkdir -p " \o d.InternalEnv.InstallDir, "">> >>, "")


(***************************************************************************)
(* The three assemblers: the builders each one calls, in order.            *)
(***************************************************************************)
\* the caller's choice of assembler for a deployment model
Assembler(d) ==
    IF d.Model = HybridModel THEN "CreateHybridDefFile"
    ELSE IF d.Model = BindModel THEN "CreateBindDefFile"
    ELSE "CreateBasicDefFile"

\* mutation: the files section is created last
CreateHybridDefFile_FilesLast(a) ==
    <<"AddBootstrap", "addLabels", "addMPIEnv", "addDistroInit", "addAppDownload",
      "AddMPIInstall", "addAppInstall", "addMPICleanup">>
    \o (IF DetectURLType(a.Source) = FileURL THEN <<"createFilesSection">> ELSE <<>>)

CreateHybridDefFile(a) ==
    <<"AddBootstrap", "addLabels">>
    \o (IF DetectURLType(a.Source) = FileURL THEN <<"createFilesSection">> ELSE <<>>)
    \o <<"addMPIEnv", "addDistroInit", "addAppDownload", "AddMPIInstall",
         "addAppInstall", "addMPICleanup">>

\* mutation: the dependencies are installed before the distro is initialized
CreateBindDefFile_DepsFirst(a) ==
    <<"AddBootstrap", "addLabels", "createFilesSection", "addMPIEnv",
      "addDependencies", "addDistroInit", "mkdirInstallDir", "addCleanUp">>

CreateBindDefFile(a) ==
    <<"AddBootstrap", "addLabels", "createFilesSection", "addMPIEnv",
      "addDistroInit", "addDependencies", "mkdirInstallDir", "addCleanUp">>

\* mutation: the environment section of the MPI models is kept
CreateBasicDefFile_WithEnv(a) ==
    <<"AddBootstrap", "addLabels", "createFilesSection", "addMPIEnv", "addDistroInit",
      "addDependencies", "addCleanUp">>

CreateBasicDefFile(a) ==
    <<"AddBootstrap", "addLabels", "createFilesSection", "addDistroInit",
      "addDependencies", "addCleanUp">>

Sequence(a, d) ==
    IF Assembler(d) = "CreateHybridDefFile" THEN CreateHybridDefFile(a)
    ELSE IF Assembler(d) = "CreateBindDefFile" THEN CreateBindDefFile(a)
    ELSE CreateBasicDefFile(a)

\* the builder a step of an assembler calls, with the arguments it passes
Call(name, a, d, cfg, h, list) ==
    CASE name = "AddBootstrap"       -> AddBootstrap(d, cfg, h)
      [] name = "addLabels"          -> addLabels(a, d)
      [] name = "createFilesSection" -> createFilesSection(a, d)
      [] name = "addMPIEnv"          -> addMPIEnv(d)
      [] name = "addDistroInit"      -> addDistroInit(d, cfg)
      [] name = "addAppDownload"     -> addAppDownload(a, d)
      [] name = "AddMPIInstall"      -> AddMPIInstall(d)
      [] name = "addAppInstall"      -> addAppInstall(a, d)
      [] name = "addMPICleanup"      -> addMPICleanup(a, d)
      [] name = "addDependencies"    -> addDependencies(d, list)
      [] name = "mkdirInstallDir"    -> mkdirInstallDir(d)
      [] name = "addCleanUp"         -> addCleanUp(d)

\* the message an assembler wraps a builder's error in
ErrPrefix(name) ==
    CASE name = "AddBootstrap"       -> "failed to create the bootstrap section of the definition file: "
      [] name = "addLabels"          -> "failed to create the labels section of the definition file: "
      [] name = "createFilesSection" -> "failed to create the files section of the definition file: "
      [] name = "addMPIEnv"          -> "failed to create the environment section of the definition file: "
      [] name = "addDistroInit"      -> "failed to add the code initializing the distro: "
      [] name = "addAppDownload"     -> "failed to add the section to download the app: "
      [] name = "AddMPIInstall"      -> "failed to create the post section of the definition file: "
      [] name = "addAppInstall"      -> "failed to create the post section of the definition file: "
      [] name = "addMPICleanup"      -> "failed to add code to cleanup MPI files: "
      [] name = "addDependencies"    -> "failed to add package dependencies to the definition file: "
      [] name = "mkdirInstallDir"    -> "failed to write to definition file: "
      [] name = "addCleanUp"         -> "failed to add code to clean up: "

\* the packages CreateBindDefFile always appends to the detected ones
BindPackages ==
    <<"libc-bin", "libopensm-dev", "librdmacm-dev", "librdmacm1", "kmod", "libmlx4-1",
      "libibverbs-dev", "libibverbs1", "libnl-3-dev", "infiniband-diags", "ibverbs-utils">>

\* mutation: the packages are reported although ldd did not run
GetPackageDependenciesForFile_Always(h, file) == h.deps

\* ldd.Module.GetPackageDependenciesForFile: empty when ldd is missing or fails
GetPackageDependenciesForFile(h, file) ==
    IF ~h.lddInPath THEN <<>>
    ELSE IF ~h.lddRuns THEN <<>>
    ELSE h.deps

(***************************************************************************)
(* Inputs.                                                                 *)
(***************************************************************************)
DistroIDs ==
    { [Name |-> "ubuntu", Version |-> "20.04", Codename |-> "focal"],
      [Name |-> "centos", Version |-> "7", Codename |-> "core"],
      [Name |-> "debian", Version |-> "10", Codename |-> "buster"] }

NilImplm == [isNil |-> TRUE, ID |-> "", Version |-> "", URL |-> ""]

Implems ==
    { [isNil |-> FALSE, ID |-> "openmpi", Version |-> "4.0.1", URL |-> u] :
        u \in { "https://example.org/openmpi-4.0.1.tar.bz2",
                "https://example.org/openmpi-4.0.1.tar.gz",
                "https://example.org/openmpi-4.0.1.zip" } }

NilEnv == [isNil |-> TRUE, InstallDir |-> "", SrcDir |-> ""]

Envs == { [isNil |-> FALSE, InstallDir |-> "/opt/openmpi-4.0.1", SrcDir |-> "/opt"] }

Sources ==
    { "file:///home/user/mpitest.c",
      "file:///home/user/app.tar",
      "https://example.org/app-1.0.tar.gz",
      "https://example.org/app.zip",
      "https://example.org/app.git" }

BinPaths == { "", "/home/user/bin/mpitest" }

AllDeps == <<"libc6", "libgomp1", "libhwloc5", "libnuma1">>

DetectedLists == { SubSeq(AllDeps, 1, n) : n \in 0..(IF MaxDeps < 4 THEN MaxDeps ELSE 4) }

Apps(sources, cmds) ==
    { [Name |-> "mpitest", BinName |-> "mpitest", BinPath |-> b, Source |-> s, InstallCmd |-> c] :
        b \in BinPaths, s \in sources, c \in cmds }

\* hosts: the registry's base images, and the ldd module and binary
Hosts(names, lddCases) ==
    { [baseImages |-> bi, lddLoaded |-> l.loaded, lddInPath |-> l.inPath,
       lddRuns |-> l.runs, deps |-> l.deps] :
        bi \in { {}, names }, l \in lddCases }

NoLdd == { [loaded |-> FALSE, inPath |-> FALSE, runs |-> FALSE, deps |-> <<>>] }

LddCases ==
    NoLdd
    \cup { [loaded |-> TRUE, inPath |-> FALSE, runs |-> FALSE, deps |-> <<"libc6">>],
           [loaded |-> TRUE, inPath |-> TRUE, runs |-> FALSE, deps |-> <<"libc6">>] }
    \cup { [loaded |-> TRUE, inPath |-> TRUE, runs |-> TRUE, deps |-> l] : l \in DetectedLists }

Paths == { "", "/tmp/app.def" }

InitRun ==
    /\ pc = "start"
    /\ manifest = <<>>
    /\ calls = <<>>
    /\ done = <<>>
    /\ created = FALSE
    /\ fileOpen = FALSE
    /\ closes = 0
    /\ pkgs = <<>>
    /\ ret = ""

InitHybrid ==
    /\ app \in Apps(Sources, {"", "make all"})
    /\ data \in { [Path |-> p, DistroID |-> id, MpiImplm |-> i, InternalEnv |-> e,
                   Model |-> HybridModel] :
                    p \in Paths, id \in DistroIDs, i \in Implems, e \in Envs }
    /\ host \in Hosts({data.DistroID.Name}, NoLdd)

InitBind ==
    /\ app \in Apps({"file:///home/user/mpitest.c"}, {""})
    /\ data \in { [Path |-> p, DistroID |-> id, MpiImplm |-> i, InternalEnv |-> e,
                   Model |-> BindModel] :
                    p \in Paths, id \in DistroIDs,
                    i \in { NilImplm } \cup { j \in Implems : HasSuffix(j.URL, ".tar.gz") },
                    e \in Envs }
    /\ host \in Hosts({data.DistroID.Name}, LddCases)

InitBasic ==
    /\ app \in Apps({"file:///home/user/mpitest.c"}, {""})
    /\ data \in { [Path |-> p, DistroID |-> id, MpiImplm |-> NilImplm, InternalEnv |-> NilEnv,
                   Model |-> ""] :
                    p \in Paths, id \in DistroIDs }
    /\ host \in Hosts({data.DistroID.Name}, LddCases)

\* no template is being processed
TemplateIdle ==
    /\ tmpl = ""
    /\ tmplOrig = ""
    /\ tmplRead = FALSE
    /\ tmplRuns = 0

\* no image has been inspected
MetadataIdle ==
    /\ metaOut = <<>>
    /\ metadata = NilConfig
    /\ mpiCfg = [ID |-> "", Version |-> ""]

\* no image is being signed
SignIdle ==
    /\ environ = [KeyIndex |-> "", Passphrase |-> ""]
    /\ writers = 0
    /\ writer = "none"
    /\ stdin = [open |-> FALSE, data |-> <<>>]
    /\ proc = "none"

\* no container is being built or pulled
DriverIdle ==
    /\ container = NilConfig
    /\ install = [found |-> FALSE, intact |-> FALSE, defFileOK |-> FALSE, imageExists |-> FALSE]
    /\ cmdRuns = <<>>
    /\ imageMode = ""

Init ==
    /\ InitRun
    /\ InitHybrid \/ InitBind \/ InitBasic
    /\ app0 = app
    /\ sysCfg \in { [Nopriv |-> n, Debug |-> FALSE] : n \in BOOLEAN }
    /\ TemplateIdle
    /\ MetadataIdle
    /\ SignIdle
    /\ DriverIdle

(***************************************************************************)
(* Steps of an assembler run.                                              *)
(***************************************************************************)
tmplVars == <<tmpl, tmplOrig, tmplRead, tmplRuns>>

\* mutation: os.Create is called before the path is checked
OpenInvalid_CreateFirst ==
    /\ pc = "start"
    /\ data.Path = ""
    /\ created' = TRUE
    /\ ret' = "failed to create " \o data.Path
    /\ pc' = "done"
    /\ UNCHANGED <<app, app0, data, sysCfg, host, manifest, calls, done, fileOpen, closes, pkgs>>
    /\ UNCHANGED <<tmplVars, signVars, metaVars, drvVars>>

\* data.Path is empty: the assembler returns before os.Create
OpenInvalid ==
    /\ pc = "start"
    /\ data.Path = ""
    /\ ret' = "invalid parameter(s)"
    /\ pc' = "done"
    /\ UNCHANGED <<app, app0, data, sysCfg, host, manifest, calls, done, created, fileOpen,
                   closes, pkgs>>
    /\ UNCHANGED <<tmplVars, signVars, metaVars, drvVars>>

\* os.Create(data.Path): truncates the file, or fails
Open ==
    /\ pc = "start"
    /\ data.Path # ""
    /\ created' = TRUE
    /\ \E ok \in BOOLEAN :
        IF ok
        THEN /\ fileOpen' = TRUE
             /\ manifest' = <<>>
             /\ pc' = IF Assembler(data) = "CreateHybridDefFile" THEN "build" ELSE "ldd"
             /\ ret' = ""
        ELSE /\ ret' = "failed to create " \o data.Path
             /\ pc' = "done"
             /\ UNCHANGED <<fileOpen, manifest>>
    /\ UNCHANGED <<app, app0, data, sysCfg, host, calls, done, closes, pkgs>>
    /\ UNCHANGED <<tmplVars, signVars, metaVars, drvVars>>

\* ldd.Detect, GetPackageDependenciesForFile and, in CreateBindDefFile, the appends
DetectDependencies ==
    /\ pc = "ldd"
    /\ IF ~host.lddLoaded
       THEN /\ calls' = Append(calls, "ldd.Detect")
            /\ ret' = "failed to load a workable ldd module"
            /\ pc' = "done"
            /\ UNCHANGED pkgs
       ELSE /\ calls' = calls \o <<"ldd.Detect", "GetPackageDependenciesForFile">>
            /\ pkgs' = GetPackageDependenciesForFile(host, app.BinPath)
                       \o (IF Assembler(data) = "CreateBindDefFile" THEN BindPackages ELSE <<>>)
            /\ pc' = "build"
            /\ UNCHANGED ret
    /\ UNCHANGED <<app, app0, data, sysCfg, host, manifest, done, created, fileOpen, closes>>
    /\ UNCHANGED <<tmplVars, signVars, metaVars, drvVars>>

NextBuilder == Sequence(app, data)[Len(done) + 1]

\* mutation: the error is recorded and the sequence goes on
AfterError_Continue(p) == "build"

\* where an assembler goes when a builder returned an error: it returns the error
AfterError(p) == "done"

\* a builder whose writes all succeed: it returns nil or its own error
RunBuilder ==
    /\ pc = "build"
    /\ LET name == NextBuilder
           b == Call(name, app, data, sysCfg, host, pkgs)
       IN  /\ calls' = Append(calls, name)
           /\ manifest' = manifest \o Flatten(b.writes)
           /\ app' = IF name = "addLabels"
                     THEN [app EXCEPT !.BinPath = addLabelsBinPath(app, data)]
                     ELSE app
           /\ IF b.err = ""
              THEN /\ done' = Append(done, name)
                   /\ pc' = IF Len(done') = Len(Sequence(app, data)) THEN "close" ELSE "build"
                   /\ UNCHANGED ret
              ELSE /\ ret' = ErrPrefix(name) \o b.err
                   /\ pc' = AfterError(pc)
                   /\ UNCHANGED done
    /\ UNCHANGED <<app0, data, sysCfg, host, created, fileOpen, closes, pkgs>>
    /\ UNCHANGED <<tmplVars, signVars, metaVars, drvVars>>

\* a builder whose write k+1 fails after j of its lines: the builder returns the
\* error and the assembler wraps and returns it
RunBuilderWriteFails ==
    /\ pc = "build"
    /\ LET name == NextBuilder
           b == Call(name, app, data, sysCfg, host, pkgs)
       IN  \E k \in 0..(Len(b.writes) - 1) :
           \E j \in 0..(Len(b.writes[k + 1]) - 1) :
               /\ calls' = Append(calls, name)
               /\ manifest' = manifest \o Flatten(SubSeq(b.writes, 1, k))
                                       \o SubSeq(b.writes[k + 1], 1, j)
               /\ app' = IF name = "addLabels" /\ k >= b.mut
                         THEN [app EXCEPT !.BinPath = addLabelsBinPath(app, data)]
                         ELSE app
               /\ ret' = ErrPrefix(name) \o "write error"
               /\ pc' = AfterError(pc)
    /\ UNCHANGED <<app0, data, sysCfg, host, done, created, fileOpen, closes, pkgs>>
    /\ UNCHANGED <<tmplVars, signVars, metaVars, drvVars>>

\* f.Close() and return nil
Close ==
    /\ pc = "close"
    /\ fileOpen' = FALSE
    /\ closes' = closes + 1
    /\ ret' = "nil"
    /\ pc' = "done"
    /\ UNCHANGED <<app, app0, data, sysCfg, host, manifest, calls, done, created, pkgs>>
    /\ UNCHANGED <<tmplVars, signVars, metaVars, drvVars>>

Next ==
    \/ OpenInvalid
    \/ Open
    \/ DetectDependencies
    \/ RunBuilder
    \/ RunBuilderWriteFails
    \/ Close

Spec == Init /\ [][Next]_vars


(***************************************************************************)
(* The template post-processor, UpdateDeffileTemplate.                     *)
(***************************************************************************)
asmVars == <<app, app0, sysCfg, host, manifest, calls, done, created, fileOpen, closes, pkgs>>

UrlTag == "MPIURL"
VersionTag == "MPIVERSION"
TarballTag == "MPITARBALL"

Templates ==
    { "",
      "From: ubuntu:DISTROCODENAME",
      "export V=MPIVERSION && wget MPIURL && tar TARARGS MPITARBALL # MPIVERSION" }

TemplateData ==
    { [Path |-> p, DistroID |-> id, Model |-> "", InternalEnv |-> NilEnv,
       MpiImplm |-> [isNil |-> FALSE, ID |-> "intel", Version |-> v, URL |-> u],
       Tags |-> [Version |-> tv, URL |-> tu, Tarball |-> tt]] :
        p \in Paths,
        id \in { [Name |-> "ubuntu", Version |-> "20.04", Codename |-> "focal"],
                 [Name |-> "", Version |-> "", Codename |-> ""] },
        v \in { "", "2019.3" },
        u \in { "", "https://example.org/impi.tar.bz2", "https://example.org/impi.tar.gz",
                "https://example.org/impi.tgz", "https://example.org/impi.tar",
                "https://example.org/impi.zip",
                "https://example.org/MPIVERSION/impi.tar.gz" },
        tv \in { "", VersionTag }, tu \in { "", UrlTag }, tt \in { "", TarballTag } }

InitTemplate ==
    /\ InitRun
    /\ app = [Name |-> "", BinName |-> "", BinPath |-> "", Source |-> "", InstallCmd |-> ""]
    /\ app0 = app
    /\ host = [baseImages |-> {}, lddLoaded |-> FALSE, lddInPath |-> FALSE,
               lddRuns |-> FALSE, deps |-> <<>>]
    /\ sysCfg = [Nopriv |-> FALSE, Debug |-> FALSE]
    /\ data \in TemplateData
    /\ tmpl \in Templates
    /\ tmplOrig = tmpl
    /\ tmplRead = FALSE
    /\ tmplRuns = 0
    /\ MetadataIdle
    /\ SignIdle
    /\ DriverIdle

\* the sanity checks of UpdateDeffileTemplate
TemplateParamsInvalid(d) ==
    \/ d.MpiImplm.Version = ""
    \/ d.MpiImplm.URL = ""
    \/ d.Path = ""
    \/ d.Tags.Version = ""
    \/ d.Tags.URL = ""
    \/ d.Tags.Tarball = ""
    \/ d.DistroID.Name = ""

\* the switch on the tarball format: the tar flags, "error" for the default case
TemplateTarArgs(format) ==
    IF format = FormatBZ2 THEN "-xjf"
    ELSE IF format = FormatGZ THEN "-xzf"
    ELSE IF format = FormatTAR THEN "-xf"
    ELSE "error"

UpdateDistroCodename(content, distro) == Replace(content, distroCodenameTag, distro, -1)

\* mutation: only the first occurrence of each tag is replaced
Substitute_FirstOnly(content, d, tarArgs) ==
    LET tarball == Base(d.MpiImplm.URL)
        c1 == Replace(content, d.Tags.Version, d.MpiImplm.Version, 1)
        c2 == Replace(c1, d.Tags.URL, d.MpiImplm.URL, 1)
        c3 == Replace(c2, d.Tags.Tarball, tarball, 1)
        c4 == Replace(c3, "TARARGS", tarArgs, 1)
    IN  Replace(c4, distroCodenameTag, d.DistroID.Codename, 1)

\* the content UpdateDeffileTemplate computes from the file's content
Substitute(content, d, tarArgs) ==
    LET tarball == Base(d.MpiImplm.URL)
        c1 == Replace(content, d.Tags.Version, d.MpiImplm.Version, -1)
        c2 == Replace(c1, d.Tags.URL, d.MpiImplm.URL, -1)
        c3 == Replace(c2, d.Tags.Tarball, tarball, -1)
        c4 == Replace(c3, "TARARGS", tarArgs, -1)
    IN  UpdateDistroCodename(c4, d.DistroID.Codename)

TemplateStart ==
    /\ pc \in {"start", "done"}
    /\ tmplRuns < MaxRuns
    /\ tmplRuns' = tmplRuns + 1
    /\ tmplOrig' = tmpl
    /\ pc' = "done"
    /\ UNCHANGED <<data, asmVars, metaVars, drvVars, signVars>>

\* a required field is empty: the call returns before the file is read
TemplateInvalid ==
    /\ TemplateStart
    /\ TemplateParamsInvalid(data)
    /\ ret' = "invalid parameter(s)"
    /\ tmplRead' = FALSE
    /\ UNCHANGED tmpl

\* ioutil.ReadFile fails
TemplateReadFails ==
    /\ TemplateStart
    /\ ~TemplateParamsInvalid(data)
    /\ ret' = "failed to read " \o data.Path
    /\ tmplRead' = TRUE
    /\ UNCHANGED tmpl

\* mutation: the substitutions are written before the format error is returned
TemplateUnsupported_WritesAnyway ==
    /\ TemplateStart
    /\ ~TemplateParamsInvalid(data)
    /\ TemplateTarArgs(DetectTarballFormat(Base(data.MpiImplm.URL))) = "error"
    /\ ret' = "un-supported tarball format for " \o Base(data.MpiImplm.URL)
    /\ tmplRead' = TRUE
    /\ tmpl' = Substitute(tmpl, data, "")

\* the URL's basename has no supported archive suffix: the call returns before the write
TemplateUnsupported ==
    /\ TemplateStart
    /\ ~TemplateParamsInvalid(data)
    /\ TemplateTarArgs(DetectTarballFormat(Base(data.MpiImplm.URL))) = "error"
    /\ ret' = "un-supported tarball format for " \o Base(data.MpiImplm.URL)
    /\ tmplRead' = TRUE
    /\ UNCHANGED tmpl

\* the substitutions and ioutil.WriteFile, which replaces the file or fails, leaving
\* the file as it was, or truncated with part of the new content
TemplateWrite ==
    /\ TemplateStart
    /\ ~TemplateParamsInvalid(data)
    /\ LET tarArgs == TemplateTarArgs(DetectTarballFormat(Base(data.MpiImplm.URL)))
           content == Substitute(tmpl, data, tarArgs)
       IN  /\ tarArgs # "error"
           /\ tmplRead' = TRUE
           /\ \/ /\ tmpl' = content
                 /\ ret' = "nil"
              \/ /\ tmpl' \in {tmpl, "", SubSeq(content, 1, Len(content) \div 2)}
                 /\ ret' = "failed to write file " \o data.Path

UpdateDeffileTemplate ==
    \/ TemplateInvalid
    \/ TemplateReadFails
    \/ TemplateUnsupported
    \/ TemplateWrite

NextTemplate == UpdateDeffileTemplate

SpecTemplate == InitTemplate /\ [][NextTemplate]_vars

\* C10: when UpdateDeffileTemplate returns the invalid-parameter error the file
\* has not been read, and when it returns that error or the unsupported-format
\* error the template file is unchanged
C10_TemplateUntouchedOnError ==
    /\ (tmplRuns > 0 /\ TemplateParamsInvalid(data)) =>
            (ret = "invalid parameter(s)" /\ ~tmplRead /\ tmpl = tmplOrig)
    /\ ret = "invalid parameter(s)" => (~tmplRead /\ tmpl = tmplOrig)
    /\ HasPrefix(ret, "un-supported tarball format") => tmpl = tmplOrig
    /\ (/\ tmplRuns > 0
        /\ ~TemplateParamsInvalid(data)
        /\ ~(\E sfx \in {".tar.bz2", ".tar.gz", ".tgz", ".tar"} : HasSuffix(data.MpiImplm.URL, sfx)))
            => (ret \notin {"", "nil"} /\ tmpl = tmplOrig)

C10_Witness ==
    /\ tmplRuns > 0
    /\ ret = "un-supported tarball format for impi.zip"
    /\ Contains(tmpl, "MPIVERSION")
    /\ tmpl = tmplOrig

(***************************************************************************)
(* The inspection of an image: the labels addLabels wrote come back as the *)
(* lines of the inspect command and parseInspectOutput reads them.         *)
(***************************************************************************)
\* sy.IsSudoCmd: the sub-command is one the configuration runs through sudo
IsSudoCmd(cmd, cfg) == cmd \in cfg.SudoCmds

\* the line the inspect command prints for a label line of the definition file
InspectLine(line) ==
    LET label == SubSeq(line, 2, Len(line))
        sp == Index(label, " ")
    IN  SubSeq(label, 1, sp - 1) \o ": " \o SubSeq(label, sp + 1, Len(label))

\* the output of the inspect command for an image built from a definition file
InspectOutput(lines) ==
    LET labels == SelectSeq(lines, LAMBDA l : HasPrefix(l, "\t") /\ Index(l, " ") > 0)
    IN  [i \in 1..Len(labels) |-> InspectLine(labels[i])]

\* mutation: the version key is looked for without its colon
parseLine_NoColon(st, line) ==
    [ID      |-> IF Contains(line, "MPI_Implementation: ")
                 THEN Replace(line, "MPI_Implementation: ", "", -1) ELSE st.ID,
     Version |-> IF Contains(line, "MPI_Version ")
                 THEN Replace(line, "MPI_Version ", "", -1) ELSE st.Version,
     Model   |-> IF Contains(line, "Model: ")
                 THEN Replace(line, "Model: ", "", -1) ELSE st.Model,
     Distro  |-> IF Contains(line, "Linux_version: ")
                 THEN Replace(line, "Linux_version: ", "", -1) ELSE st.Distro,
     AppExe  |-> IF Contains(line, "App_exe: ")
                 THEN Replace(line, "App_exe: ", "", -1) ELSE st.AppExe,
     MPIDir  |-> IF Contains(line, "MPI_Directory: ")
                 THEN Replace(line, "MPI_Directory: ", "", -1) ELSE st.MPIDir]

\* the body of parseInspectOutput's loop for one line
parseLine(st, line) ==
    [ID      |-> IF Contains(line, "MPI_Implementation: ")
                 THEN Replace(line, "MPI_Implementation: ", "", -1) ELSE st.ID,
     Version |-> IF Contains(line, "MPI_Version: ")
                 THEN Replace(line, "MPI_Version: ", "", -1) ELSE st.Version,
     Model   |-> IF Contains(line, "Model: ")
                 THEN Replace(line, "Model: ", "", -1) ELSE st.Model,
     Distro  |-> IF Contains(line, "Linux_version: ")
                 THEN Replace(line, "Linux_version: ", "", -1) ELSE st.Distro,
     AppExe  |-> IF Contains(line, "App_exe: ")
                 THEN Replace(line, "App_exe: ", "", -1) ELSE st.AppExe,
     MPIDir  |-> IF Contains(line, "MPI_Directory: ")
                 THEN Replace(line, "MPI_Directory: ", "", -1) ELSE st.MPIDir]

RECURSIVE parseLines(_, _)
parseLines(st, lines) ==
    IF lines = <<>> THEN st ELSE parseLines(parseLine(st, Head(lines)), Tail(lines))

\* parseInspectOutput: the fields it found, in a Config and an implem.Info
parseInspectOutput(output) ==
    LET st == parseLines([ID |-> "", Version |-> "", Model |-> "", Distro |-> "",
                          AppExe |-> "", MPIDir |-> ""], output)
    IN  << [NilConfig EXCEPT !.Model = st.Model, !.Distro = st.Distro,
                             !.AppExe = st.AppExe, !.MPIDir = st.MPIDir],
           [ID |-> st.ID, Version |-> st.Version] >>

imgPath == "/tmp/app.sif"

MetadataApps ==
    LET apps == Apps({"file:///home/user/mpitest.c"}, {""})
    IN  apps \cup {[a EXCEPT !.Name = "Model: demo"] : a \in apps}

MetadataData ==
    { [Path |-> "/tmp/app.def", DistroID |-> id, MpiImplm |-> i, InternalEnv |-> e,
       Model |-> m] :
        id \in { d \in DistroIDs : d.Name \in {"ubuntu", "centos"} },
        i \in { NilImplm } \cup { j \in Implems : HasSuffix(j.URL, ".tar.gz") },
        e \in { NilEnv } \cup Envs,
        m \in { "", HybridModel, BindModel } }

SysConfigs ==
    { [Nopriv |-> n, Debug |-> d, SingularityBin |-> b, SudoBin |-> "/usr/bin/sudo",
       SudoCmds |-> sc, Persistent |-> p] :
        n \in BOOLEAN, d \in BOOLEAN, b \in { "", "/usr/local/bin/singularity" },
        sc \in { {}, {"build", "inspect"} }, p \in { "", "/var/cache/sympi" } }

InitMetadata ==
    /\ InitRun
    /\ app \in MetadataApps
    /\ app0 = app
    /\ data \in MetadataData
    /\ host = [baseImages |-> {}, lddLoaded |-> FALSE, lddInPath |-> FALSE,
               lddRuns |-> FALSE, deps |-> <<>>]
    /\ sysCfg \in { c \in SysConfigs : ~c.Nopriv /\ ~c.Debug /\ c.Persistent = ""
                                       /\ c.SingularityBin # "" }
    /\ TemplateIdle
    /\ MetadataIdle
    /\ SignIdle
    /\ container = NilConfig
    /\ install \in { [found |-> TRUE, intact |-> i, defFileOK |-> TRUE, imageExists |-> TRUE] :
                        i \in BOOLEAN }
    /\ cmdRuns = <<>>
    /\ imageMode = ""

\* addLabels writes the labels of the definition file the image is built from
LabelImage ==
    /\ pc = "start"
    /\ manifest' = Flatten(addLabels(app, data).writes)
    /\ app' = [app EXCEPT !.BinPath = addLabelsBinPath(app, data)]
    /\ calls' = Append(calls, "addLabels")
    /\ done' = Append(done, "addLabels")
    /\ pc' = "built"
    /\ UNCHANGED <<app0, data, sysCfg, host, created, fileOpen, closes, pkgs, ret>>
    /\ UNCHANGED <<tmplVars, signVars, metaVars, drvVars>>

\* the inspect command GetMetadata runs
InspectCmd(cfg) ==
    IF IsSudoCmd("inspect", cfg)
    THEN <<cfg.SudoBin, <<cfg.SingularityBin, "inspect", imgPath>> >>
    ELSE <<cfg.SingularityBin, <<"inspect", imgPath>> >>

\* sy.CheckIntegrity fails: GetMetadata returns before it runs a command
GetMetadataCompromised ==
    /\ pc = "built"
    /\ ~install.intact
    /\ ret' = "Singularity installation has been compromised"
    /\ pc' = "done"
    /\ UNCHANGED <<asmVars, data, tmplVars, signVars, metaVars, drvVars>>

\* the inspect command fails or times out
GetMetadataRunFails ==
    /\ pc = "built"
    /\ install.intact
    /\ cmdRuns' = Append(cmdRuns, InspectCmd(sysCfg))
    /\ ret' = "failed to execute command"
    /\ pc' = "done"
    /\ UNCHANGED <<asmVars, data, tmplVars, signVars, metaVars, container, install, imageMode>>

\* the inspect command succeeds and its output is parsed
GetMetadataParsed ==
    /\ pc = "built"
    /\ install.intact
    /\ cmdRuns' = Append(cmdRuns, InspectCmd(sysCfg))
    /\ metaOut' = InspectOutput(manifest)
    /\ metadata' = [parseInspectOutput(metaOut')[1] EXCEPT !.Path = imgPath]
    /\ mpiCfg' = parseInspectOutput(metaOut')[2]
    /\ ret' = "nil"
    /\ pc' = "done"
    /\ UNCHANGED <<asmVars, data, tmplVars, signVars, container, install, imageMode>>

GetMetadata == GetMetadataCompromised \/ GetMetadataRunFails \/ GetMetadataParsed

NextMetadata == LabelImage \/ GetMetadata

SpecMetadata == InitMetadata /\ [][NextMetadata]_vars

(***************************************************************************)
(* The build driver: Create and Pull run the singularity command once and  *)
(* wait for it.  A run is [bin, args, res, stdout, stderr, err], res being *)
(* "running" until the command has returned.                               *)
(***************************************************************************)
Containers ==
    { [NilConfig EXCEPT !.Name = n, !.Path = p, !.BuildDir = b,
                        !.InstallDir = "/opt/images", !.DefFile = "/tmp/app.def", !.URL = u] :
        n \in { "", "app.sif" }, p \in { "", "/tmp/images/app.sif" },
        b \in { "", "/tmp/build" }, u \in { "", "library://sylabs/mpi/openmpi:4.0.1" } }

\* what the host answers: exec.LookPath, sy.CheckIntegrity, checker.CheckDefFile,
\* and whether the image file exists
Installs ==
    { [found |-> f, intact |-> i, defFileOK |-> d, imageExists |-> e] :
        f \in BOOLEAN, i \in BOOLEAN, d \in BOOLEAN, e \in BOOLEAN }

\* how a command that failed or timed out ends
Failures ==
    { [stdout |-> "", stderr |-> "FATAL: command failed", err |-> "exit status 255"],
      [stdout |-> "INFO: Starting...", stderr |-> "", err |-> "signal: killed"] }

InitDriver ==
    /\ InitRun
    /\ app = [Name |-> "", BinName |-> "", BinPath |-> "", Source |-> "", InstallCmd |-> ""]
    /\ app0 = app
    /\ data = [Path |-> "", DistroID |-> [Name |-> "", Version |-> "", Codename |-> ""],
               MpiImplm |-> NilImplm, InternalEnv |-> NilEnv, Model |-> ""]
    /\ host = [baseImages |-> {}, lddLoaded |-> FALSE, lddInPath |-> FALSE,
               lddRuns |-> FALSE, deps |-> <<>>]
    /\ sysCfg \in SysConfigs
    /\ TemplateIdle
    /\ MetadataIdle
    /\ SignIdle
    /\ container \in Containers
    /\ install \in Installs
    /\ cmdRuns = <<>>
    /\ imageMode = ""

\* filepath.Join of a clean directory and a name
FilepathJoin(dir, name) == IF dir = "" THEN name ELSE dir \o "/" \o name

\* the Config after Create has set its defaults
CreateDefaults(c) ==
    LET named == IF c.Name = "" THEN [c EXCEPT !.Name = "singularity_mpi.sif"] ELSE c
    IN  IF named.Path = ""
        THEN [named EXCEPT !.Path = FilepathJoin(named.InstallDir, named.Name)]
        ELSE named

\* mutation: the sudo configuration is looked at before Nopriv
CreateCmd_SudoFirst(c, cfg) ==
    IF IsSudoCmd("build", cfg)
    THEN [bin |-> cfg.SudoBin, args |-> <<cfg.SingularityBin, "build", c.Path, c.DefFile>>]
    ELSE IF cfg.Nopriv
    THEN [bin |-> cfg.SingularityBin, args |-> <<"build", "--fakeroot", c.Path, c.DefFile>>]
    ELSE [bin |-> cfg.SingularityBin, args |-> <<"build", c.Path, c.DefFile>>]

\* the command Create runs
CreateCmd(c, cfg) ==
    IF cfg.Nopriv
    THEN [bin |-> cfg.SingularityBin, args |-> <<"build", "--fakeroot", c.Path, c.DefFile>>]
    ELSE IF IsSudoCmd("build", cfg)
    THEN [bin |-> cfg.SudoBin, args |-> <<cfg.SingularityBin, "build", c.Path, c.DefFile>>]
    ELSE [bin |-> cfg.SingularityBin, args |-> <<"build", c.Path, c.DefFile>>]

Running(cmd) ==
    [bin |-> cmd.bin, args |-> cmd.args, res |-> "running",
     stdout |-> "", stderr |-> "", err |-> ""]

ExecError(o) ==
    "failed to execute command - stdout: " \o o.stdout \o "; stderr: " \o o.stderr
    \o "; err: " \o o.err

\* the last command has returned with outcome o
Returned(res, o) ==
    [cmdRuns EXCEPT ![Len(cmdRuns)] =
        [@ EXCEPT !.res = res, !.stdout = o.stdout, !.stderr = o.stderr, !.err = o.err]]

driverFrame == <<app, app0, data, host, manifest, done, created, fileOpen, closes, pkgs>>

\* Create up to cmd.Run: the sanity checks, the defaults and the choice of the command
CreateStart ==
    /\ pc = "start"
    /\ calls' = Append(calls, "Create")
    /\ LET bin == IF sysCfg.SingularityBin = "" THEN "/usr/bin/singularity"
                  ELSE sysCfg.SingularityBin
           cfg == [sysCfg EXCEPT !.SingularityBin = bin]
           c == CreateDefaults(container)
       IN  IF container.BuildDir = ""
           THEN /\ ret' = "build directory is undefined"
                /\ pc' = "done"
                /\ UNCHANGED <<sysCfg, container, cmdRuns>>
           ELSE IF sysCfg.SingularityBin = "" /\ ~install.found
           THEN /\ ret' = "singularity not available"
                /\ pc' = "done"
                /\ UNCHANGED <<sysCfg, container, cmdRuns>>
           ELSE IF ~install.intact
           THEN /\ ret' = "Singularity installation has been compromised"
                /\ pc' = "done"
                /\ sysCfg' = cfg
                /\ UNCHANGED <<container, cmdRuns>>
           ELSE IF sysCfg.Debug /\ ~install.defFileOK
           THEN /\ ret' = "unable to check definition file"
                /\ pc' = "done"
                /\ sysCfg' = cfg
                /\ container' = c
                /\ UNCHANGED cmdRuns
           ELSE /\ sysCfg' = cfg
                /\ container' = c
                /\ cmdRuns' = Append(cmdRuns, Running(CreateCmd(c, cfg)))
                /\ pc' = "build"
                /\ UNCHANGED ret
    /\ UNCHANGED <<driverFrame, install, imageMode, tmplVars, signVars, metaVars>>

\* the builder fails or times out: Create returns the error with what it captured
BuildFails ==
    /\ pc = "build"
    /\ \E o \in Failures :
        /\ cmdRuns' = Returned("failed", o)
        /\ ret' = ExecError(o)
    /\ pc' = "done"
    /\ \E e \in BOOLEAN : install' = [install EXCEPT !.imageExists = e]
    /\ UNCHANGED <<driverFrame, calls, sysCfg, container, imageMode, tmplVars, signVars, metaVars>>

\* the builder returns success
BuildSucceeds ==
    /\ pc = "build"
    /\ cmdRuns' = Returned("ok", [stdout |-> "INFO: Build complete", stderr |-> "", err |-> ""])
    /\ pc' = "chmod"
    /\ \E e \in BOOLEAN : install' = [install EXCEPT !.imageExists = e]
    /\ UNCHANGED <<driverFrame, calls, sysCfg, container, imageMode, ret, tmplVars, signVars, metaVars>>

\* os.Open and f.Chmod(0755) on the image
MakeExecutable ==
    /\ pc = "chmod"
    /\ pc' = "done"
    /\ IF ~install.imageExists
       THEN /\ ret' = "failed to open " \o container.Path
            /\ UNCHANGED imageMode
       ELSE \/ /\ ret' = "failed to change " \o container.Path \o " mode"
               /\ UNCHANGED imageMode
            \/ /\ imageMode' = "0755"
               /\ ret' = "nil"
    /\ UNCHANGED <<driverFrame, calls, sysCfg, container, install, cmdRuns, tmplVars, signVars, metaVars>>

Create == CreateStart \/ BuildFails \/ BuildSucceeds \/ MakeExecutable

\* the command Pull runs
PullCmd(c, cfg) == [bin |-> cfg.SingularityBin, args |-> <<"pull", c.Path, c.URL>>]

\* Pull up to cmd.Run: the sanity check, the integrity check and the persistent mode
PullStart ==
    /\ pc = "start"
    /\ calls' = Append(calls, "Pull")
    /\ IF sysCfg.SingularityBin = "" \/ container.Path = "" \/ container.URL = ""
          \/ container.BuildDir = ""
       THEN /\ ret' = "invalid parameter(s)"
            /\ pc' = "done"
            /\ UNCHANGED cmdRuns
       ELSE IF ~install.intact
       THEN /\ ret' = "Singularity installation has been compromised"
            /\ pc' = "done"
            /\ UNCHANGED cmdRuns
       ELSE IF sysCfg.Persistent # "" /\ install.imageExists
       THEN /\ ret' = "nil"
            /\ pc' = "done"
            /\ UNCHANGED cmdRuns
       ELSE /\ cmdRuns' = Append(cmdRuns, Running(PullCmd(container, sysCfg)))
            /\ pc' = "pull"
            /\ UNCHANGED ret
    /\ UNCHANGED <<driverFrame, sysCfg, container, install, imageMode, tmplVars, signVars, metaVars>>

\* mutation: a failed pull is run again
PullFails_Retry ==
    /\ pc = "pull"
    /\ Len(cmdRuns) < 2
    /\ \E o \in Failures :
        cmdRuns' = Append(Returned("failed", o), Running(PullCmd(container, sysCfg)))
    /\ UNCHANGED <<pc, ret>>
    /\ UNCHANGED <<driverFrame, calls, sysCfg, container, install, imageMode, tmplVars, signVars, metaVars>>

\* the puller fails or times out: Pull returns the error
PullFails ==
    /\ pc = "pull"
    /\ \E o \in Failures :
        /\ cmdRuns' = Returned("failed", o)
        /\ ret' = ExecError(o)
    /\ pc' = "done"
    /\ UNCHANGED <<driverFrame, calls, sysCfg, container, install, imageMode, tmplVars, signVars, metaVars>>

\* the puller returns success: the image is at its destination
PullSucceeds ==
    /\ pc = "pull"
    /\ cmdRuns' = Returned("ok", [stdout |-> "", stderr |-> "", err |-> ""])
    /\ install' = [install EXCEPT !.imageExists = TRUE]
    /\ ret' = "nil"
    /\ pc' = "done"
    /\ UNCHANGED <<driverFrame, calls, sysCfg, container, imageMode, tmplVars, signVars, metaVars>>

Pull == PullStart \/ PullFails \/ PullSucceeds

NextDriver == Create \/ Pull

SpecDriver == InitDriver /\ [][NextDriver]_vars

(***************************************************************************)
(* Sign: the main flow runs the sign command and waits for it while a      *)
(* goroutine writes the passphrase into the command's stdin pipe.  A       *)
(* log.Fatal ends the whole program: nothing runs after it, deferred calls *)
(* included.                                                               *)
(***************************************************************************)
Environs ==
    { [KeyIndex |-> k, Passphrase |-> w] : k \in { "", "1" }, w \in { "", "secret" } }

InitSign ==
    /\ InitRun
    /\ app = [Name |-> "", BinName |-> "", BinPath |-> "", Source |-> "", InstallCmd |-> ""]
    /\ app0 = app
    /\ data = [Path |-> "", DistroID |-> [Name |-> "", Version |-> "", Codename |-> ""],
               MpiImplm |-> NilImplm, InternalEnv |-> NilEnv, Model |-> ""]
    /\ host = [baseImages |-> {}, lddLoaded |-> FALSE, lddInPath |-> FALSE,
               lddRuns |-> FALSE, deps |-> <<>>]
    /\ sysCfg \in { [c EXCEPT !.SudoCmds = sc] :
                        c \in { x \in SysConfigs : ~x.Nopriv /\ ~x.Debug /\ x.Persistent = ""
                                                   /\ x.SudoCmds = {} },
                        sc \in { {}, {"sign"} } }
    /\ TemplateIdle
    /\ MetadataIdle
    /\ container \in { c \in Containers : c.Name # "" /\ c.Path # "" /\ c.BuildDir # ""
                                          /\ c.URL = "" }
    /\ install \in { i \in Installs : i.defFileOK /\ i.imageExists }
    /\ cmdRuns = <<>>
    /\ imageMode = ""
    /\ environ \in Environs
    /\ writers = 0
    /\ writer = "none"
    /\ stdin = [open |-> FALSE, data |-> <<>>]
    /\ proc = "none"

\* the command Sign runs
SignCmd(c, cfg, env) ==
    LET indexIdx == IF env.KeyIndex # "" THEN env.KeyIndex ELSE "0"
    IN  IF IsSudoCmd("sign", cfg)
        THEN [bin |-> cfg.SudoBin,
              args |-> <<cfg.SingularityBin, "sign", "--keyidx", indexIdx, c.Path>>]
        ELSE [bin |-> cfg.SingularityBin, args |-> <<"sign", "--keyidx", indexIdx, c.Path>>]

\* the program is running: no log.Fatal has ended it
Alive == pc # "fatal" /\ writer # "fatal"

signFrame == <<driverFrame, sysCfg, container, install, imageMode, environ>>

\* Sign up to cmd.Run: the integrity check, the command, cmd.StdinPipe and the go statement
SignStart ==
    /\ pc = "start"
    /\ calls' = Append(calls, "Sign")
    /\ IF ~install.intact
       THEN /\ ret' = "Singularity installation has been compromised"
            /\ pc' = "done"
            /\ UNCHANGED <<writers, writer, stdin>>
       ELSE \/ /\ pc' = "fatal"
               /\ UNCHANGED <<ret, writers, writer, stdin>>
            \/ /\ stdin' = [open |-> TRUE, data |-> <<>>]
               /\ writers' = writers + 1
               /\ writer' = "spawned"
               /\ pc' = "run"
               /\ UNCHANGED ret
    /\ UNCHANGED <<signFrame, cmdRuns, proc, tmplVars, metaVars>>

\* cmd.Run starts the process, or fails to and closes the pipe
SignRun ==
    /\ pc = "run"
    /\ Alive
    /\ IF sysCfg.SingularityBin # "" /\ install.found
       THEN /\ cmdRuns' = Append(cmdRuns, Running(SignCmd(container, sysCfg, environ)))
            /\ proc' = "running"
            /\ pc' = "wait"
            /\ UNCHANGED <<ret, stdin>>
       ELSE /\ stdin' = [stdin EXCEPT !.open = FALSE]
            /\ ret' = ExecError([stdout |-> "", stderr |-> "", err |-> "executable file not found"])
            /\ pc' = "done"
            /\ UNCHANGED <<cmdRuns, proc>>
    /\ UNCHANGED <<signFrame, calls, writers, writer, tmplVars, metaVars>>

\* the signer exits by itself, or is killed at the timeout
SignerExits ==
    /\ proc = "running"
    /\ Alive
    /\ proc' = "exited"
    /\ \E res \in {"ok", "failed"} : \E o \in Failures :
        cmdRuns' = Returned(res, IF res = "ok" THEN [stdout |-> "", stderr |-> "", err |-> ""]
                                 ELSE o)
    /\ UNCHANGED <<signFrame, calls, pc, ret, writers, writer, stdin, tmplVars, metaVars>>

\* cmd.Run returns once the process has ended; it closes the pipe
SignReturns ==
    /\ pc = "wait"
    /\ Alive
    /\ proc = "exited"
    /\ stdin' = [stdin EXCEPT !.open = FALSE]
    /\ ret' = IF cmdRuns[Len(cmdRuns)].res = "ok" THEN "nil"
              ELSE ExecError(cmdRuns[Len(cmdRuns)])
    /\ pc' = "done"
    /\ UNCHANGED <<signFrame, calls, cmdRuns, proc, writers, writer, tmplVars, metaVars>>

\* the goroutine's io.WriteString: an error (the pipe was closed, or its reader
\* is gone) is a log.Fatal
WriterWrites ==
    /\ writer = "spawned"
    /\ Alive
    /\ IF ~stdin.open \/ proc = "exited"
       THEN /\ writer' = "fatal"
            /\ UNCHANGED stdin
       ELSE /\ stdin' = [stdin EXCEPT !.data = Append(@, environ.Passphrase)]
            /\ writer' = "wrote"
    /\ UNCHANGED <<signFrame, calls, cmdRuns, pc, ret, proc, writers, tmplVars, metaVars>>

\* the goroutine's deferred stdin.Close()
WriterCloses ==
    /\ writer = "wrote"
    /\ Alive
    /\ writer' = "closed"
    /\ stdin' = [stdin EXCEPT !.open = FALSE]
    /\ UNCHANGED <<signFrame, calls, cmdRuns, pc, ret, proc, writers, tmplVars, metaVars>>

Sign == SignStart \/ SignRun \/ SignerExits \/ SignReturns

Writer == WriterWrites \/ WriterCloses

NextSign == Sign \/ Writer

SpecSign == InitSign /\ [][NextSign]_vars

\* the five tags of a call and the values that replace them, in the order
\* UpdateDeffileTemplate replaces them
TagValues(d) ==
    << <<d.Tags.Version, d.MpiImplm.Version>>,
       <<d.Tags.URL, d.MpiImplm.URL>>,
       <<d.Tags.Tarball, Base(d.MpiImplm.URL)>>,
       <<"TARARGS", TemplateTarArgs(DetectTarballFormat(Base(d.MpiImplm.URL)))>>,
       <<"DISTROCODENAME", d.DistroID.Codename>> >>

TagFree(content, d) == \A i \in 1..5 : ~Contains(content, TagValues(d)[i][1])

Chars(str) == {SubSeq(str, i, i) : i \in 1..Len(str)}

\* every value is non-empty and has no character in common with a tag
ValuesApartFromTags(d) ==
    \A i \in 1..5 :
        /\ TagValues(d)[i][2] # ""
        /\ \A j \in 1..5 : Chars(TagValues(d)[i][2]) \cap Chars(TagValues(d)[j][1]) = {}

\* no tag holds another one, and no end of a tag is the start of another one
TagsApart(d) ==
    \A i, j \in 1..5 : i # j =>
        LET a == TagValues(d)[i][1]
            b == TagValues(d)[j][1]
        IN  /\ ~Contains(a, b)
            /\ \A k \in 1..Len(b) : ~HasSuffix(a, SubSeq(b, 1, k))

\* the text with each tag occurrence, found in one pass from the left, replaced
\* by its value and every other character kept
RECURSIVE OnePass(_, _)
OnePass(str, tv) ==
    LET found == {i \in 1..Len(tv) : Index(str, tv[i][1]) > 0}
    IN  IF found = {} THEN str
        ELSE LET i == CHOOSE k \in found : \A l \in found :
                          \/ Index(str, tv[k][1]) < Index(str, tv[l][1])
                          \/ Index(str, tv[k][1]) = Index(str, tv[l][1]) /\ k <= l
                 at == Index(str, tv[i][1])
             IN  SubSeq(str, 1, at - 1) \o tv[i][2]
                 \o OnePass(SubSeq(str, at + Len(tv[i][1]), Len(str)), tv)

TemplateApplied == tmplRuns > 0 /\ ret = "nil"

\* C11 as stated: after a successful application the written content holds no
\* occurrence of a tag, for any template and any values
C11_NoTagLeft == TemplateApplied => TagFree(tmpl, data)

\* C11, amended: when the tags do not overlap and every value is non-empty and
\* shares no character with a tag, a successful application leaves no occurrence
\* of a tag, has replaced every occurrence and kept every other character, and a
\* further application changes nothing
C11_SubstitutionComplete ==
    (TemplateApplied /\ TagsApart(data) /\ ValuesApartFromTags(data)) =>
        /\ TagFree(tmpl, data)
        /\ tmpl = OnePass(tmplOrig, TagValues(data))
        /\ TagFree(tmplOrig, data) => tmpl = tmplOrig
        /\ Substitute(tmpl, data, TagValues(data)[4][2]) = tmpl

C11_Witness ==
    /\ TemplateApplied
    /\ tmplRuns = 2
    /\ TagsApart(data)
    /\ ValuesApartFromTags(data)
    /\ tmpl = tmplOrig
    /\ tmpl = "export V=2019.3 && wget https://example.org/impi.tgz && tar -xzf impi.tgz # 2019.3"

(***************************************************************************)
(* Properties of the assemblers.                                           *)
(***************************************************************************)
IsBuilder(c) == c \notin {"ldd.Detect", "GetPackageDependenciesForFile"}

\* the builders invoked so far, without the dependency inspection
BuilderCalls == SelectSeq(calls, IsBuilder)

\* the lines a builder writes when all its writes succeed, in the current state
SectionText(name) == Flatten(Call(name, app, data, sysCfg, host, pkgs).writes)

RECURSIVE Sections(_)
Sections(names) ==
    IF names = <<>> THEN <<>> ELSE SectionText(Head(names)) \o Sections(Tail(names))

Succeeded == pc = "done" /\ ret = "nil"

Failed == ret \notin {"", "nil"}

\* C1: a successful CreateHybridDefFile run has appended Bootstrap, Labels,
\* Files (only for a bare-file source), Environment, Distro Init, App Download,
\* MPI Install, App Install, MPI Cleanup, each once and in this order
C1_HybridOrder ==
    (Assembler(data) = "CreateHybridDefFile" /\ Succeeded) =>
        LET order == <<"AddBootstrap", "addLabels">>
                     \o (IF DetectURLType(app.Source) = FileURL
                         THEN <<"createFilesSection">> ELSE <<>>)
                     \o <<"addMPIEnv", "addDistroInit", "addAppDownload",
                          "AddMPIInstall", "addAppInstall", "addMPICleanup">>
        IN  /\ calls = order
            /\ done = order
            /\ manifest = Sections(order)

C1_Witness ==
    /\ Assembler(data) = "CreateHybridDefFile"
    /\ Succeeded
    /\ "createFilesSection" \in {done[i] : i \in 1..Len(done)}
    /\ \E i \in 1..Len(manifest) : manifest[i] = "%files"

\* C2: a successful CreateBindDefFile run has appended Bootstrap, Labels, Files,
\* Environment, Distro Init, Dependency Install, the mkdir of the MPI mount
\* directory, Cleanup in this order; the dependency list is computed before
\* anything is written and is written only after Distro Init
C2_BindOrder ==
    Assembler(data) = "CreateBindDefFile" =>
        LET order == <<"AddBootstrap", "addLabels", "createFilesSection", "addMPIEnv",
                       "addDistroInit", "addDependencies", "mkdirInstallDir", "addCleanUp">>
        IN  /\ (manifest # <<>> \/ BuilderCalls # <<>>) =>
                /\ Len(calls) >= 2
                /\ calls[2] = "GetPackageDependenciesForFile"
                /\ pkgs = GetPackageDependenciesForFile(host, app0.BinPath) \o BindPackages
            /\ \A i \in 1..Len(manifest) :
                (HasPrefix(manifest[i], "\tapt install") \/ HasPrefix(manifest[i], "\tyum install"))
                    => /\ "addDistroInit" \in {done[j] : j \in 1..Len(done)}
                       /\ \E j \in 1..(i - 1) : manifest[j] = "%post"
            /\ Succeeded =>
                /\ calls = <<"ldd.Detect", "GetPackageDependenciesForFile">> \o order
                /\ done = order
                /\ manifest = Sections(order)

C2_Witness ==
    /\ Assembler(data) = "CreateBindDefFile"
    /\ Succeeded
    /\ host.deps # <<>>
    /\ \E i \in 1..Len(manifest) : HasPrefix(manifest[i], "\tapt install -y libc6 ")
    /\ \E i \in 1..Len(manifest) : HasPrefix(manifest[i], "\tmkdir -p ")

\* C3: a successful CreateBasicDefFile run has appended Bootstrap, Labels, Files,
\* Distro Init, Dependency Install, Cleanup in this order; no run of it emits an
\* Environment section, an MPI install or the MPI mount directory
C3_BasicOrder ==
    Assembler(data) = "CreateBasicDefFile" =>
        LET order == <<"AddBootstrap", "addLabels", "createFilesSection",
                       "addDistroInit", "addDependencies", "addCleanUp">>
        IN  /\ \A i \in 1..Len(calls) :
                calls[i] \notin {"addMPIEnv", "AddMPIInstall", "mkdirInstallDir"}
            /\ \A i \in 1..Len(manifest) :
                /\ manifest[i] # "%environment"
                /\ ~HasPrefix(manifest[i], "\texport MPI_")
                /\ ~HasPrefix(manifest[i], "\tMPI_DIR=")
                /\ ~HasPrefix(manifest[i], "\tmkdir -p")
            /\ Succeeded =>
                /\ BuilderCalls = order
                /\ done = order
                /\ manifest = Sections(order)

C3_Witness ==
    /\ Assembler(data) = "CreateBasicDefFile"
    /\ Succeeded
    /\ \E i \in 1..Len(manifest) : manifest[i] = "%post"
    /\ \E i \in 1..Len(manifest) : manifest[i] = "\tapt install -y libc6"

\* C4: with an empty manifest path each assembler returns the invalid-parameter
\* error without creating the file, inspecting dependencies or writing a section
C4_EmptyPath ==
    data.Path = "" =>
        /\ ~created
        /\ ~fileOpen
        /\ calls = <<>>
        /\ pkgs = <<>>
        /\ manifest = <<>>
        /\ pc = "done" => ret = "invalid parameter(s)"

C4_Witness ==
    /\ data.Path = ""
    /\ pc = "done"
    /\ ret = "invalid parameter(s)"
    /\ Assembler(data) = "CreateBindDefFile"


\* C5: once the output file has been opened, an assembler that has returned has
\* closed it exactly once, on the success path and on every error path
C5_ClosedOnReturn ==
    (pc = "done" /\ (fileOpen \/ closes > 0)) => (~fileOpen /\ closes = 1)

\* C6 as stated: after a builder's error the manifest holds exactly the sections
\* completed before the failure
C6_ExactlyCompletedSections ==
    (Failed /\ BuilderCalls # <<>>) => manifest = Sections(done)

\* C6, amended: after a builder's error the assembler has returned, the builders
\* invoked are a prefix of the model's order ending with the failing one (invoked
\* once), and the manifest holds the completed sections followed at most by the
\* lines the failing builder wrote before its failing write
C6_FailFast ==
    (Failed /\ BuilderCalls # <<>>) =>
        LET order == Sequence(app0, data)
            n == Len(done)
        IN  /\ pc = "done"
            /\ n < Len(order)
            /\ done = SubSeq(order, 1, n)
            /\ BuilderCalls = SubSeq(order, 1, n + 1)
            /\ \E i \in 0..(Len(manifest) - Len(Sections(done))) :
                /\ SubSeq(manifest, 1, Len(manifest) - i) = Sections(done)
                /\ LET rest == SubSeq(manifest, Len(manifest) - i + 1, Len(manifest))
                       full == SectionText(order[n + 1])
                   IN  /\ Len(rest) <= Len(full)
                       /\ rest = SubSeq(full, 1, Len(rest))
                       /\ rest # full \/ full = <<>>

C6_Witness ==
    /\ Failed
    /\ Len(done) = 4
    /\ Len(manifest) > Len(Sections(done))
    /\ manifest[Len(manifest)] = "%post"


\* the number of lines of a sequence that start with one of the prefixes
CountLines(lines, prefixes) ==
    Cardinality({i \in 1..Len(lines) : \E p \in prefixes : HasPrefix(lines[i], p)})

\* AddBootstrap has just returned nil: the manifest is what it wrote
BootstrapWritten == BuilderCalls = <<"AddBootstrap">> /\ done = <<"AddBootstrap">>

\* C7: for ubuntu and centos, AddBootstrap emits one "Bootstrap:" line and one
\* "From:" or "OSVersion:" line: library with the registry URL when there is one,
\* else debootstrap with the codename for ubuntu, yum with the version for
\* privileged centos, docker with the distro name for unprivileged centos
C7_BootstrapChoice ==
    (BootstrapWritten /\ data.DistroID.Name \in {"ubuntu", "centos"}) =>
        /\ CountLines(manifest, {"Bootstrap:"}) = 1
        /\ CountLines(manifest, {"From:", "OSVersion:"}) = 1
        /\ IF data.DistroID.Name \in host.baseImages
           THEN /\ manifest[1] = "Bootstrap: library"
                /\ manifest[2] = "From: library://sylabs/" \o data.DistroID.Name
                                 \o ":" \o data.DistroID.Version
           ELSE IF data.DistroID.Name = "ubuntu"
           THEN /\ manifest[1] = "Bootstrap: debootstrap"
                /\ manifest[2] = "OSVersion: " \o data.DistroID.Codename
           ELSE IF ~sysCfg.Nopriv
           THEN /\ manifest[1] = "Bootstrap: yum"
                /\ manifest[2] = "OSVersion: " \o data.DistroID.Version
           ELSE /\ manifest[1] = "Bootstrap: docker"
                /\ manifest[2] = "From: " \o data.DistroID.Name

C7_Witness ==
    /\ BootstrapWritten
    /\ data.DistroID.Name = "centos"
    /\ sysCfg.Nopriv
    /\ host.baseImages = {}
    /\ manifest = <<"Bootstrap: docker", "From: centos", "">>

AppExeLabel ==
    LET at == {i \in 1..Len(manifest) : HasPrefix(manifest[i], "\tApp_exe ")}
    IN  IF at = {} THEN ""
        ELSE LET i == CHOOSE k \in at : TRUE
             IN  SubSeq(manifest[i], Len("\tApp_exe ") + 1, Len(manifest[i]))

LabelsWritten == "addLabels" \in {done[i] : i \in 1..Len(done)}

\* C9: the App_exe label is /opt/<BinName> for the bind model whatever BinPath
\* holds; for the hybrid model it is the configured BinPath unchanged, or
\* /opt/<BinName> when BinPath is empty
C9_AppExeLabel ==
    LabelsWritten =>
        /\ CountLines(manifest, {"\tApp_exe "}) = 1
        /\ data.Model = BindModel => AppExeLabel = "/opt/" \o app0.BinName
        /\ (data.Model = HybridModel /\ app0.BinPath # "") => AppExeLabel = app0.BinPath
        /\ (data.Model = HybridModel /\ app0.BinPath = "") => AppExeLabel = "/opt/" \o app0.BinName

C9_Witness ==
    /\ LabelsWritten
    /\ data.Model = BindModel
    /\ app0.BinPath = "/home/user/bin/mpitest"
    /\ AppExeLabel = "/opt/mpitest"

InSeq(x, seq) == \E i \in 1..Len(seq) : seq[i] = x

\* C12: MPI Install and App Download (http source) pick the tar flag from the
\* archive's suffix, and for a suffix that is none of .tar.bz2, .tar.gz, .tgz,
\* .tar the builder returns an error and writes no extraction command
C12_UnknownSuffixIsError ==
    /\ (InSeq("AddMPIInstall", calls)
            /\ DetectTarballFormat(Base(data.MpiImplm.URL)) = UnknownFormat) =>
        /\ ~InSeq("AddMPIInstall", done)
        /\ \A i \in 1..Len(manifest) :
               ~HasPrefix(manifest[i], "\tcd $MPI_BUILDDIR && wget $MPI_URL && tar ")
    /\ (InSeq("addAppDownload", calls) /\ DetectURLType(app.Source) = HttpURL
            /\ DetectTarballFormat(app.Source) = UnknownFormat) =>
        /\ ~InSeq("addAppDownload", done)
        /\ \A i \in 1..Len(manifest) :
               ~HasPrefix(manifest[i], "\tcd /opt && wget ")

IsInstallLine(line) == HasPrefix(line, "\tapt install") \/ HasPrefix(line, "\tyum install")

InstallLines == SelectSeq(manifest, IsInstallLine)

LddMissing == host.lddLoaded /\ (~host.lddInPath \/ ~host.lddRuns)

BindOrBasic == Assembler(data) \in {"CreateBindDefFile", "CreateBasicDefFile"}

C14_BindAptLine ==
    (Assembler(data) = "CreateBindDefFile" /\ data.DistroID.Name = "ubuntu"
        /\ InSeq("addDependencies", done)) =>
        LET detected == GetPackageDependenciesForFile(host, app0.BinPath)
            fixed == <<"libc-bin", "libopensm-dev", "librdmacm-dev", "librdmacm1", "kmod",
                       "libmlx4-1", "libibverbs-dev", "libibverbs1", "libnl-3-dev",
                       "infiniband-diags", "ibverbs-utils">>
        IN  /\ InstallLines = <<"\tapt install -y " \o Join(detected \o fixed)>>
            /\ \E i, j \in 1..Len(manifest) :
                   i < j /\ manifest[i] = "%post" /\ IsInstallLine(manifest[j])

C14_Witness ==
    /\ Assembler(data) = "CreateBindDefFile"
    /\ data.DistroID.Name = "ubuntu"
    /\ Succeeded
    /\ host.lddRuns
    /\ host.deps = <<>>
    /\ InstallLines = <<"\tapt install -y libc-bin libopensm-dev librdmacm-dev librdmacm1 kmod libmlx4-1 libibverbs-dev libibverbs1 libnl-3-dev infiniband-diags ibverbs-utils">>

\* the value of a label in the definition file, "" when the label is not written
Emitted(key) ==
    LET at == {i \in 1..Len(manifest) : HasPrefix(manifest[i], "\t" \o key \o " ")}
    IN  IF at = {} THEN ""
        ELSE LET i == CHOOSE k \in at : TRUE
             IN  SubSeq(manifest[i], Len(key) + 3, Len(manifest[i]))

WrittenKeys ==
    {"Linux_distribution", "Linux_version", "MPI_Implementation", "MPI_Version",
     "MPI_Directory", "Model", "Application", "App_exe"}

ParsedKeys ==
    {"Linux_version", "MPI_Implementation", "MPI_Version", "MPI_Directory", "Model", "App_exe"}

Recovered ==
    {metadata.Name, metadata.Distro, metadata.Model, metadata.AppExe, metadata.MPIDir,
     metadata.URL, mpiCfg.ID, mpiCfg.Version}

Inspected == pc = "done" /\ ret = "nil" /\ metaOut # <<>>

LabelValuesClean ==
    \A k \in WrittenKeys : \A q \in ParsedKeys : ~Contains(Emitted(k), q \o ": ")

LastSection(name) ==
    IF done # <<>> /\ done[Len(done)] = name
    THEN SubSeq(manifest, Len(Sections(SubSeq(done, 1, Len(done) - 1))) + 1, Len(manifest))
    ELSE <<>>

\* C16: addDependencies and addCleanUp write the package manager of the distro's
\* own family: apt lines for ubuntu, yum lines for centos, and nothing for any
\* other name, returning nil
C16_OwnFamily ==
    /\ \A i \in 1..Len(LastSection("addDependencies")) :
        LET line == LastSection("addDependencies")[i]
        IN  /\ data.DistroID.Name = "ubuntu" => ~HasPrefix(line, "\tyum")
            /\ data.DistroID.Name = "centos" => HasPrefix(line, "\tyum install -y ")
            /\ data.DistroID.Name \in {"ubuntu", "centos"}
    /\ \A i \in 1..Len(LastSection("addCleanUp")) :
        LET line == LastSection("addCleanUp")[i]
        IN  /\ data.DistroID.Name = "ubuntu" => HasPrefix(line, "\tapt")
            /\ data.DistroID.Name = "centos" => HasPrefix(line, "\tyum")
            /\ data.DistroID.Name \in {"ubuntu", "centos"}

\* C17: in a CreateHybridDefFile run addAppInstall writes, for a file source, the
\* mpicc line only when the caller gave a binary path and the caller's install
\* command when it gave none; for a git or http source the install command
\* ("make install" by default); and in every case the symlink line last
C17_InstallAsConfigured ==
    (Assembler(data) = "CreateHybridDefFile" /\ InSeq("addAppInstall", done)) =>
        LET installCmd == IF app0.InstallCmd # "" THEN app0.InstallCmd ELSE "make install"
            mpicc == {i \in 1..Len(manifest) :
                         HasPrefix(manifest[i], "\tcd /opt/$APPDIR && mpicc -o ")}
        IN  /\ (DetectURLType(app0.Source) = FileURL /\ app0.BinPath # "") => mpicc # {}
            /\ (DetectURLType(app0.Source) = FileURL /\ app0.BinPath = "") =>
                /\ mpicc = {}
                /\ app0.InstallCmd # "" =>
                       InSeq("\tcd /opt/$APPDIR && " \o app0.InstallCmd, manifest)
            /\ DetectURLType(app0.Source) \in {GitURL, HttpURL} =>
                /\ mpicc = {}
                /\ InSeq("\tcd /opt/$APPDIR && " \o installCmd, manifest)
            /\ InSeq("\tcd /opt && ln -s $APPDIR/" \o app0.BinName \o " " \o app0.BinName
                     \o " 2> /dev/null || true", manifest)

IsStagingLine(line) == HasPrefix(line, "\t") /\ HasSuffix(line, " /opt")

StagingLines == SelectSeq(manifest, IsStagingLine)

FilesHeaders == SelectSeq(manifest, LAMBDA l : l = "%files")

HybridFilesDone ==
    /\ Assembler(data) = "CreateHybridDefFile"
    /\ DetectURLType(app0.Source) = FileURL
    /\ InSeq("createFilesSection", done)

\* C18 as stated: in a CreateHybridDefFile run every file source gets a %files
\* block with exactly one staging line
C18_EveryFileStaged ==
    HybridFilesDone =>
        /\ Len(FilesHeaders) = 1
        /\ StagingLines = <<"\t" \o Replace(app0.Source, "file://", "", 1) \o " /opt">>

\* C18, amended: in a CreateHybridDefFile run a git or http source gets no
\* %files block and no staging line; a file source gets one %files block, with
\* exactly one staging line when its name has no archive suffix and with no
\* staging line when it ends in .tar, .tar.gz, .tgz or .tar.bz2
C18_FilesSection ==
    Assembler(data) = "CreateHybridDefFile" =>
        /\ DetectURLType(app0.Source) \in {GitURL, HttpURL} =>
            /\ FilesHeaders = <<>>
            /\ StagingLines = <<>>
            /\ ~InSeq("createFilesSection", calls)
        /\ HybridFilesDone =>
            /\ Len(FilesHeaders) = 1
            /\ StagingLines =
                   (IF \E sfx \in {".tar", ".tar.gz", ".tgz", ".tar.bz2"} :
                           HasSuffix(app0.Source, sfx)
                    THEN <<>>
                    ELSE <<"\t" \o Replace(app0.Source, "file://", "", 1) \o " /opt">>)

C18_Witness ==
    /\ HybridFilesDone
    /\ Succeeded
    /\ app0.Source = "file:///home/user/app.tar"
    /\ StagingLines = <<>>

CreateCalled == calls = <<"Create">>

\* the three forms of the build command, for the Config and sys.Config of the call
FakerootForm ==
    [bin |-> sysCfg.SingularityBin,
     args |-> <<"build", "--fakeroot", container.Path, container.DefFile>>]

SudoForm ==
    [bin |-> sysCfg.SudoBin,
     args |-> <<sysCfg.SingularityBin, "build", container.Path, container.DefFile>>]

DirectForm ==
    [bin |-> sysCfg.SingularityBin, args |-> <<"build", container.Path, container.DefFile>>]

RunForm(r) == [bin |-> r.bin, args |-> r.args]

C19_OneForm ==
    CreateCalled =>
        /\ Len(cmdRuns) <= 1
        /\ cmdRuns # <<>> =>
            RunForm(cmdRuns[1]) =
                (IF sysCfg.Nopriv THEN FakerootForm
                 ELSE IF "build" \in sysCfg.SudoCmds THEN SudoForm
                 ELSE DirectForm)
        /\ imageMode # "" =>
            /\ cmdRuns # <<>>
            /\ cmdRuns[1].res = "ok"
            /\ imageMode = "0755"
        /\ (cmdRuns # <<>> /\ cmdRuns[1].res = "failed") =>
            /\ pc = "done"
            /\ imageMode = ""
            /\ ret = "failed to execute command - stdout: " \o cmdRuns[1].stdout
                     \o "; stderr: " \o cmdRuns[1].stderr \o "; err: " \o cmdRuns[1].err

C19_ModeStep ==
    (CreateCalled /\ imageMode' # imageMode) =>
        /\ cmdRuns # <<>>
        /\ cmdRuns[1].res = "ok"
        /\ cmdRuns' = cmdRuns
        /\ ret' = "nil"

\* C19: a Create call runs at most one build command, the --fakeroot form when
\* Nopriv is set whatever the sudo configuration is, else the sudo form when
\* build is a sudo command, else the direct form; the image's mode is changed
\* only in a step that follows the builder's success, and after a failed build
\* Create has returned the error with the captured stdout and stderr and the
\* mode is untouched
C19_CreateForm == []C19_OneForm /\ [][C19_ModeStep]_vars

C19_Witness ==
    /\ CreateCalled
    /\ sysCfg.Nopriv
    /\ "build" \in sysCfg.SudoCmds
    /\ Len(cmdRuns) = 1
    /\ RunForm(cmdRuns[1]) = FakerootForm
    /\ cmdRuns[1].args = <<"build", "--fakeroot", "/opt/images/singularity_mpi.sif", "/tmp/app.def">>
    /\ imageMode = "0755"
    /\ ret = "nil"

PullCalled == calls = <<"Pull">>

PullInvalid ==
    \/ sysCfg.SingularityBin = ""
    \/ container.Path = ""
    \/ container.URL = ""
    \/ container.BuildDir = ""

\* persistent mode with the image at its destination and no pull made by this call
PullCached ==
    /\ sysCfg.Persistent # ""
    /\ install.imageExists
    /\ \A i \in 1..Len(cmdRuns) : cmdRuns[i].res # "ok"

\* what holds of every Pull call: at most one run of the pull command, none on
\* invalid parameters or on a cached image, and a failure returned as it is
PullAtMostOnce ==
    /\ Len(cmdRuns) <= 1
    /\ PullInvalid => (cmdRuns = <<>> /\ (pc = "done" => ret = "invalid parameter(s)"))
    /\ PullCached => (cmdRuns = <<>> /\ (pc = "done" /\ ~PullInvalid /\ install.intact
                                             => ret = "nil"))
    /\ cmdRuns # <<>> =>
        /\ RunForm(cmdRuns[1]) =
               [bin |-> sysCfg.SingularityBin, args |-> <<"pull", container.Path, container.URL>>]
        /\ cmdRuns[1].res = "running" <=> pc = "pull"
        /\ cmdRuns[1].res = "ok" => ret = "nil"
        /\ cmdRuns[1].res = "failed" =>
               ret = "failed to execute command - stdout: " \o cmdRuns[1].stdout
                     \o "; stderr: " \o cmdRuns[1].stderr \o "; err: " \o cmdRuns[1].err

\* C20 as stated: a returned Pull call has run the pull command exactly once
\* unless a parameter was empty or the image was cached
C20_OnceOtherwise ==
    PullCalled =>
        /\ PullAtMostOnce
        /\ (pc = "done" /\ ~PullInvalid /\ ~PullCached) => Len(cmdRuns) = 1

\* C20, amended: a Pull call runs the pull command at most once; it runs nothing
\* and returns invalid parameter(s) when the binary path, image path, URL or
\* build directory is empty, runs nothing and returns the integrity error when
\* sy.CheckIntegrity fails, runs nothing and returns nil in persistent mode with
\* the image present, and in every other case runs the command exactly once and
\* returns its failure or timeout as an error without a second run
C20_PullOnce ==
    PullCalled =>
        /\ PullAtMostOnce
        /\ (~PullInvalid /\ ~install.intact) =>
               (cmdRuns = <<>> /\ (pc = "done" =>
                    ret = "Singularity installation has been compromised"))
        /\ (pc = "done" /\ ~PullInvalid /\ install.intact /\ ~PullCached) => Len(cmdRuns) = 1

C20_Witness ==
    /\ PullCalled
    /\ pc = "done"
    /\ sysCfg.Persistent # ""
    /\ Len(cmdRuns) = 1
    /\ cmdRuns[1].res = "failed"
    /\ cmdRuns[1].err = "signal: killed"
    /\ ret = "failed to execute command - stdout: INFO: Starting...; stderr: ; err: signal: killed"

SignCalled == calls = <<"Sign">>

\* C21: a Sign call starts exactly one writer, which writes the passphrase and
\* then closes the pipe on every path; Sign returns only after the process has
\* ended, and the call ends under every interleaving of the writer and the
\* process
C21_WriterClosesPipe ==
    SignCalled =>
        /\ writers <= 1
        /\ writer # "fatal"
        /\ writer = "closed" => (~stdin.open /\ stdin.data = <<environ.Passphrase>>)
        /\ (pc = "done" /\ cmdRuns # <<>>) => proc = "exited"

IsHeader(line) == HasPrefix(line, "Bootstrap:") \/ HasPrefix(line, "%")

\* the top-level section headers of the manifest, in the order they are written
Headers ==
    LET h == SelectSeq(manifest, IsHeader)
    IN  [i \in 1..Len(h) |-> IF HasPrefix(h[i], "Bootstrap:") THEN "Bootstrap" ELSE h[i]]

PostSteps ==
    {"addAppDownload", "AddMPIInstall", "addAppInstall", "addMPICleanup",
     "addDependencies", "mkdirInstallDir", "addCleanUp"}

\* C22: in the manifest of a successful run of any assembler the headers are
\* Bootstrap, %labels, %files, %environment, %post in this order, each at most
\* once; %post is there exactly once, written by addDistroInit, and the lines of
\* every later step (app download, MPI install, dependency install, mount
\* directory, app install, cleanup) follow it with no other header in between
C22_HeaderOrder ==
    Succeeded =>
        LET k == CHOOSE j \in 1..Len(done) : done[j] = "addDistroInit"
            p == CHOOSE j \in 1..Len(manifest) : manifest[j] = "%post"
        IN  /\ Headers = <<"Bootstrap", "%labels">>
                         \o (IF InSeq("createFilesSection", done) THEN <<"%files">> ELSE <<>>)
                         \o (IF InSeq("addMPIEnv", done) THEN <<"%environment">> ELSE <<>>)
                         \o <<"%post">>
            /\ HasPrefix(manifest[1], "Bootstrap:")
            /\ InSeq("addDistroInit", done)
            /\ SectionText("addDistroInit")[1] = "%post"
            /\ \A j \in 1..Len(done) : done[j] \in PostSteps <=> j > k
            /\ SubSeq(manifest, p, Len(manifest)) = Sections(SubSeq(done, k, Len(done)))
            /\ \A j \in (p + 1)..Len(manifest) : manifest[j] = "" \/ HasPrefix(manifest[j], "\t")

C22_Witness ==
    /\ Succeeded
    /\ Assembler(data) = "CreateHybridDefFile"
    /\ Headers = <<"Bootstrap", "%labels", "%files", "%environment", "%post">>
    /\ \E j \in 1..Len(manifest) : HasPrefix(manifest[j], "\tcd $MPI_BUILDDIR && wget")

=============================================================================
